---- MODULE Spec2Model ----
(***************************************************************************)
(* Model of the meta-gen page (src/app/page.tsx): batch generation of      *)
(* stock metadata through a bounded-concurrency task runner (pLimit) with  *)
(* per-request retry (withRetry), per-item edit / tidy / save /            *)
(* regenerate, the IndexedDB history (src/lib/store.ts), the keyword       *)
(* utilities (src/lib/keywords.ts) and the generation route with its       *)
(* instruction cache (src/app/api/generate/gemini/route.ts).               *)
(*                                                                         *)
(* Text that the code processes character by character (keyword lists) is  *)
(* a sequence of one-character strings; other texts are TLA+ strings.      *)
(* An optional value (meta?, a slot of the results array) is a sequence of *)
(* length 0 or 1; an absent error is the empty string.                     *)
(***************************************************************************)
EXTENDS Integers, Sequences, FiniteSets, TLC

VARIABLES
    files,      \* useState files: the selection, a sequence of file handles
    settings,   \* useState apiKey, keywordsCount
    busy,       \* useState busy
    progress,   \* useState progress
    items,      \* useState items: the results list
    alert,      \* TRUE while the modal alert('Please enter your API key.') is open
    history,    \* IndexedDB: item id -> stored record (keys history-v1:<id>)
    cache,      \* the route's instructionCache: hash -> instruction
    batch,      \* what the running runGeneration call captured when it was invoked
    pool,       \* pLimit's locals: ret, next, active, and whether it has resolved
    tasks,      \* per task of the batch: position in genOne / withRetry
    startLog,   \* the order in which pLimit started the tasks
    regens,     \* the regenerate calls in flight
    env,        \* the failures the environment of this run can produce
    events,     \* number of user events so far
    download,   \* the file handed to the browser by the last CSV export, if any
    lib,        \* a call of a function of src/lib: arguments and result
    dataTransfer, \* the text/plain data of the drag in progress, if any
    hist,       \* useState hist: the history page shown, { items, total }
    selectedIds, \* useState selectedIds: the ids selected on the History tab
    histPage    \* useState histPage

vars == <<files, settings, busy, progress, items, alert, history, cache,
          batch, pool, tasks, startLog, regens, env, events, download, lib,
          dataTransfer, hist, selectedIds, histPage>>

----------------------------------------------------------------------------
(* Bounds of the model *)

\* most user events (adding a file, a click, an edit, a change of a setting) in one run
MaxEvents == 4
\* most regenerate calls in flight at once
MaxRegens == 1
\* most files of one batch
MaxPoolFiles == 5
\* longest text given to the functions of src/lib/keywords.ts, in characters
MaxText == 6
\* largest target count given to cleanKeywords
MaxCount == 3

\* the longest title of the item under examination
MaxField == 2

\* the most chips of the item under examination
MaxChips == 3

\* the longest text typed into the input of a new keyword, in characters
MaxTyped == 3

\* the most records of the history store
MaxRecords == 4

\* the largest page size given to loadHistory
MaxPageSize == 3

\* the number of instruction texts that the clients of the route use
MaxInstructions == 2

(* Program constants *)

\* pLimit<ItemMetaBox>(4, ...)
Concurrency == 4
\* withRetry(..., 3, 600)
Tries == 3
BackoffMs == 600

\* const pageSize = 100
pageSize == 100

----------------------------------------------------------------------------
(* src/lib/keywords.ts *)

ToLower(c) == IF c = "A" THEN "a" ELSE IF c = "B" THEN "b" ELSE c

\* a lowercasing that changes nothing
toLowerCase_AsIs(s) == s

toLowerCase(s) == [i \in 1..Len(s) |-> ToLower(s[i])]

RECURSIVE TrimLeft(_)
TrimLeft(s) == IF s # <<>> /\ Head(s) = " " THEN TrimLeft(Tail(s)) ELSE s

RECURSIVE TrimRight(_)
TrimRight(s) ==
    IF s # <<>> /\ s[Len(s)] = " " THEN TrimRight(SubSeq(s, 1, Len(s) - 1)) ELSE s

\* a trim that leaves the blanks at the end
trim_Start(s) == TrimLeft(s)

trim(s) == TrimRight(TrimLeft(s))

\* s.split(','): the pieces between the commas, empty pieces included
RECURSIVE split(_)
split(s) ==
    IF \E i \in 1..Len(s) : s[i] = ","
    THEN LET i == CHOOSE k \in 1..Len(s) :
                      s[k] = "," /\ \A j \in 1..(k - 1) : s[j] # ","
         IN  <<SubSeq(s, 1, i - 1)>> \o split(SubSeq(s, i + 1, Len(s)))
    ELSE <<s>>

NonEmpty(s) == Len(s) > 0

parseKeywords(input) ==
    LET pieces == split(input)
    IN  SelectSeq([i \in 1..Len(pieces) |-> trim(pieces[i])], NonEmpty)

\* arr.join(', ')
RECURSIVE join(_)
join(arr) ==
    IF arr = <<>> THEN <<>>
    ELSE IF Len(arr) = 1 THEN arr[1]
    ELSE arr[1] \o <<",", " ">> \o join(Tail(arr))

\* the for loop of cleanKeywords: out and seen grow, break once out is long enough
RECURSIVE CleanLoop(_, _, _, _)
CleanLoop(kws, out, seen, targetCount) ==
    IF kws = <<>> THEN out
    ELSE LET kw == Head(kws)
             k  == toLowerCase(kw)
         IN  IF k \notin seen
             THEN IF Len(out) + 1 >= targetCount
                  THEN Append(out, kw)
                  ELSE CleanLoop(Tail(kws), Append(out, kw), seen \cup {k}, targetCount)
             ELSE CleanLoop(Tail(kws), out, seen, targetCount)

cleanKeywords(input, targetCount) ==
    join(CleanLoop(parseKeywords(input), <<>>, {}, targetCount))

----------------------------------------------------------------------------
(* Values *)

\* API keys the user can have typed or stored: none, and a well-formed Gemini key
NoKey   == [prefix |-> "", len |-> 0]
GoodKey == [prefix |-> "AIza", len |-> 39]
Keys    == {NoKey, GoodKey}

\* values of the keywords-count setting
KwCounts == {1, 2}

\* failures the environment can produce: the request does not reach the route, the
\* provider answers with an error, the provider's JSON has the wrong shape, the image
\* cannot be decoded, IndexedDB rejects a write
Failures == {"net", "provider", "shape", "resize", "storage"}

\* the environments of the model: one with an unreliable network and provider, one
\* with bad images, bad answers and an unreliable IndexedDB
Envs == {{"net", "provider"}, {"shape", "resize", "storage"}}

\* the provider's answers: metadata JSON, keywords as comma-separated text
ReplyA == [title |-> "title A", description |-> "description A",
           keywords |-> <<"a", ",", " ", "A", ",", "b">>, hasKeywords |-> TRUE]
ReplyB == [title |-> "title B", description |-> "description B",
           keywords |-> <<"b", ",", "a">>, hasKeywords |-> TRUE]
BadReply == [title |-> "title", description |-> "description",
             keywords |-> <<>>, hasKeywords |-> FALSE]
Replies == {ReplyA, ReplyB}

GEMINI_MODEL == "gemini-3-pro-preview"
ALLOWED_MODELS == {"gemini-3-pro-preview", "gemini-3-flash-preview", "gemini-2.5-pro",
                   "gemini-2.5-flash", "gemini-2.5-flash-lite", "gemini-2.0-flash",
                   "gemini-1.5-pro", "gemini-1.5-flash"}

----------------------------------------------------------------------------
(* src/app/page.tsx: helpers *)

\* defaultInstruction: the prompt text, which embeds the settings; the model keeps
\* the one setting it varies
defaultInstruction(opts) == <<"instruction", opts.fileType, opts.keywordsCount>>

\* sha256 of the instruction text (src/lib/hash is not part of src/): a digest,
\* different for the different instruction texts of the model
sha256(text) == <<"sha256", text[2], text[3]>>

\* Math.round((done / total) * 100)
Round100(done, total) == (200 * done + total) \div (2 * total)

isValidMeta(x) == x.hasKeywords

\* a retry loop that goes round once more than tries
RetryAgain_OneMore(t) == t < Tries

\* withRetry: after a failed attempt t (from 0), is another attempt made?
RetryAgain(t) == t < Tries - 1

\* withRetry's catch: last = e
CatchAssign(last, e) == e

\* a backoff that multiplies by the loop counter, which starts at 0
Backoff_FromZero(t) == BackoffMs * t

\* withRetry: sleep(backoffMs * (t + 1))
Backoff(t) == BackoffMs * (t + 1)

\* a pool that lets one task more than its limit start
CanStart_OneMore(active, next, n) == active <= Concurrency /\ next < n

\* pLimit's run(): the condition of its while loop
CanStart(active, next, n) == active < Concurrency /\ next < n

\* pLimit's run(): idx = next++; active++; tasks[idx]() for as long as CanStart
RECURSIVE run(_, _)
run(st, n) ==
    IF CanStart(st.active, st.next, n)
    THEN run([next |-> st.next + 1, active |-> st.active + 1,
              started |-> Append(st.started, st.next + 1)], n)
    ELSE st

\* a pool that appends a result to the results in the order of completion
ThenWrite_Push(ret, idx, r) ==
    LET free == CHOOSE j \in DOMAIN ret :
                    ret[j] = <<>> /\ \A k \in 1..(j - 1) : ret[k] # <<>>
    IN  [ret EXCEPT ![free] = <<r>>]

\* pLimit's then callback: ret[idx] = r
ThenWrite(ret, idx, r) == [ret EXCEPT ![idx] = <<r>>]

\* ret.filter(Boolean)
RECURSIVE FilterBoolean(_)
FilterBoolean(ret) ==
    IF ret = <<>> THEN <<>> ELSE Head(ret) \o FilterBoolean(Tail(ret))

\* nanoid(): a fresh id; the model names it after the call that asked for it
nanoid(batchNo, idx, kind) == <<batchNo, idx, kind>>

\* {...it, ...patch}
Spread(it, patch) ==
    [f \in DOMAIN it |-> IF f \in DOMAIN patch THEN patch[f] ELSE it[f]]

\* patchItem: setItems(prev => prev.map(it => it.id === id ? {...it, ...patch} : it))
patchItem(prev, id, patch) ==
    [k \in 1..Len(prev) |-> IF prev[k].id = id THEN Spread(prev[k], patch) ELSE prev[k]]

\* patchItemMeta: the same on the item's meta, an empty meta standing in for none
patchItemMeta(prev, id, patch) ==
    [k \in 1..Len(prev) |->
        IF prev[k].id = id
        THEN [prev[k] EXCEPT !.meta =
                <<Spread(IF prev[k].meta = <<>>
                         THEN [title |-> "", description |-> "", keywords |-> <<>>]
                         ELSE prev[k].meta[1], patch)>>]
        ELSE prev[k]]

\* items.find(x => x.id === id)
Find(list, id) ==
    IF \E k \in 1..Len(list) : list[k].id = id
    THEN <<list[CHOOSE k \in 1..Len(list) :
                    list[k].id = id /\ \A j \in 1..(k - 1) : list[j].id # id]>>
    ELSE <<>>

\* the request body of genOne and regenerate
Body(key, instr, hash, dataUrl) ==
    [apiKey |-> key, model |-> GEMINI_MODEL, instruction |-> <<instr>>,
     instructionHash |-> <<hash>>, imageDataUrl |-> <<dataUrl>>]

\* the success box of genOne
OkBox(id, file, dataUrl, fixed) ==
    [id |-> id, filename |-> file, thumbDataUrl |-> <<dataUrl>>,
     meta |-> <<fixed>>, error |-> ""]

\* the error box of genOne's catch
ErrBox(id, file, msg) ==
    [id |-> id, filename |-> file, thumbDataUrl |-> <<>>, meta |-> <<>>, error |-> msg]

\* const fixed = { title, description, keywords: cleanKeywords(...) }
Fixed(parsed, keywordsCount) ==
    [title |-> parsed.title, description |-> parsed.description,
     keywords |-> cleanKeywords(parsed.keywords, keywordsCount)]

----------------------------------------------------------------------------
(* src/app/api/generate/gemini/route.ts *)

isValidApiKey(key) == key.prefix = "AIza" /\ key.len >= 30

isValidModel(model) == model \in ALLOWED_MODELS

\* a URL that is not of the form data:image/...;base64,...
NotADataUrl == 0

\* /^data:image\/[a-z]+;base64,/i.test(url): the data URLs made by
\* resizeImageToMax1024 have this form
isValidDataUrl(url) == url # <<>> /\ url[1] # NotADataUrl

\* the cache step: set the instruction under its hash unless the hash is known
CacheSet(c, req) ==
    IF req.instruction # <<>> /\ req.instructionHash # <<>>
       /\ req.instructionHash[1] \notin DOMAIN c
    THEN (req.instructionHash[1] :> req.instruction[1]) @@ c
    ELSE c

\* const sys = instructionCache.get(instructionHash ?? '') ?? instruction ?? '',
\* after the cache step; no element stands for ''
Sys(c, req) ==
    LET c2 == CacheSet(c, req)
    IN  IF req.instructionHash # <<>> /\ req.instructionHash[1] \in DOMAIN c2
        THEN <<c2[req.instructionHash[1]]>>
        ELSE req.instruction

\* the answer to a request that fails the input validation
Rejected(text, c) ==
    [status |-> 400, text |-> text, cache |-> c, called |-> FALSE, sys |-> <<>>]

\* POST from the input validation on: validate, register the instruction, call the
\* provider with the system prompt sys, answer.
\* upstream is what the provider does with the call: "ok", "shape" or "provider"
POST(req, c, upstream, reply) ==
    IF req.apiKey.len = 0 THEN Rejected("Missing apiKey", c)
    ELSE IF ~isValidApiKey(req.apiKey) THEN Rejected("Invalid API key format", c)
    ELSE IF req.model = "" THEN Rejected("Missing model", c)
    ELSE IF ~isValidModel(req.model) THEN Rejected("Invalid model", c)
    ELSE IF req.imageDataUrl = <<>> THEN Rejected("Missing imageDataUrl", c)
    ELSE IF ~isValidDataUrl(req.imageDataUrl)
    THEN Rejected("Invalid image data URL format", c)
    ELSE IF upstream = "provider" THEN
        [status |-> 500, text |-> "Gemini error", cache |-> CacheSet(c, req),
         called |-> TRUE, sys |-> Sys(c, req)]
    ELSE
        [status |-> 200, text |-> IF upstream = "shape" THEN BadReply ELSE reply,
         cache |-> CacheSet(c, req), called |-> TRUE, sys |-> Sys(c, req)]

\* the whole handler on the body of an HTTP request: a body that is not JSON makes
\* req.json() throw, the JSON value null makes the destructuring throw, and the
\* catch answers 500; a JSON object goes through POST
Handler(body, c, upstream, reply) ==
    IF body.kind # "object"
    THEN [status |-> 500, text |-> "Server error", cache |-> c, called |-> FALSE,
          sys |-> <<>>]
    ELSE POST(body.fields, c, upstream, reply)

----------------------------------------------------------------------------
(* State *)

NewTask == [pc |-> "pending", t |-> 0, last |-> "", calls |-> 0, outcome |-> "",
            waits |-> <<>>, req |-> <<>>, box |-> <<>>]

NoBatch == [no |-> 0, files |-> <<>>, apiKey |-> NoKey, keywordsCount |-> 1,
            instr |-> <<>>, instructionHash |-> <<>>, hashCalls |-> 0,
            registered |-> FALSE]

NoPool == [ret |-> <<>>, next |-> 0, active |-> 0, resolved |-> FALSE]

NoRegen == [pc |-> "idle", id |-> <<>>, it |-> <<>>, apiKey |-> NoKey,
            keywordsCount |-> 1, t |-> 0, last |-> "", calls |-> 0, waits |-> <<>>,
            req |-> <<>>, updated |-> <<>>]

\* no call of a function of src/lib/keywords.ts is being examined
NoCall == [fn |-> "", input |-> <<>>, targetCount |-> 0, output |-> <<>>]

\* a runGeneration call has started its tasks and pLimit has not resolved
BatchInFlight == batch.no > 0 /\ ~pool.resolved

\* <Button disabled={!files.length || busy}>
GenerateDisabled == Len(files) = 0 \/ busy

\* runGeneration's two early returns passed
CanGenerate(f, key) == Len(f) > 0 /\ key.len > 0

\* the state after the page has mounted: nothing selected, no results, the API key
\* read from localStorage, an empty history and a fresh route instance
InitWith(fs, a, ks, ns, es) ==
    /\ files = fs
    /\ settings \in [apiKey : ks, keywordsCount : ns]
    /\ busy = FALSE
    /\ progress = 0
    /\ items = <<>>
    /\ alert = FALSE
    /\ history = <<>>
    /\ cache = <<>>
    /\ batch = NoBatch
    /\ pool = NoPool
    /\ tasks = <<>>
    /\ startLog = <<>>
    /\ regens = [s \in 1..MaxRegens |-> NoRegen]
    /\ env \in es
    /\ events = a
    /\ download = <<>>
    /\ dataTransfer = <<>>
    /\ hist = [items |-> <<>>, total |-> 0]
    /\ selectedIds = {}
    /\ histPage = 0

Init == InitWith(<<>>, 0, Keys, KwCounts, Envs) /\ lib = NoCall

----------------------------------------------------------------------------
(* User events on the Generate tab *)

\* the user does something: no alert blocks the page, and the event is counted
UserEvent == ~alert /\ events < MaxEvents /\ events' = events + 1

\* onDrop / FilePicker onPick: setFiles(prev => [...prev, ...fl]), with one image
\* file; the file's handle is a number that no file of the run had before
AddFile ==
    /\ UserEvent
    /\ files' = Append(files, MaxPoolFiles + events + 1)
    /\ UNCHANGED <<settings, busy, progress, items, alert, history, cache, batch, pool,
                   tasks, startLog, regens, env, download, lib, dataTransfer, hist,
                   selectedIds, histPage>>

\* the API key input: setApiKey(e.target.value)
SetApiKey(k) ==
    /\ UserEvent
    /\ k # settings.apiKey
    /\ settings' = [settings EXCEPT !.apiKey = k]
    /\ UNCHANGED <<files, busy, progress, items, alert, history, cache, batch, pool,
                   tasks, startLog, regens, env, download, lib, dataTransfer, hist,
                   selectedIds, histPage>>

\* the keywords-count input: setKeywordsCount(...)
SetKeywordsCount(n) ==
    /\ UserEvent
    /\ n # settings.keywordsCount
    /\ settings' = [settings EXCEPT !.keywordsCount = n]
    /\ UNCHANGED <<files, busy, progress, items, alert, history, cache, batch, pool,
                   tasks, startLog, regens, env, download, lib, dataTransfer, hist,
                   selectedIds, histPage>>

\* the user closes the alert; alert() blocks the page until then
DismissAlert ==
    /\ alert
    /\ alert' = FALSE
    /\ UNCHANGED <<files, settings, busy, progress, items, history, cache, batch, pool,
                   tasks, startLog, regens, env, download, lib, dataTransfer, events,
                   hist, selectedIds, histPage>>

\* runGeneration, from the click to the first run() of pLimit.  The model follows
\* one pLimit call at a time: a click while one is in flight is not followed, and
\* neither is a batch of more than MaxPoolFiles files.
runGeneration ==
    /\ UserEvent
    /\ ~GenerateDisabled
    /\ ~BatchInFlight
    /\ Len(files) <= MaxPoolFiles
    /\ IF ~CanGenerate(files, settings.apiKey)
       THEN /\ alert' = (Len(files) > 0)
            /\ UNCHANGED <<files, settings, busy, progress, items, history, cache,
                           batch, pool, tasks, startLog, regens, env, download, lib,
                           dataTransfer, hist, selectedIds, histPage>>
       ELSE LET n     == Len(files)
                instr == defaultInstruction([fileType |-> "photo",
                                             keywordsCount |-> settings.keywordsCount])
                st    == run([next |-> 0, active |-> 0, started |-> <<>>], n)
            IN  /\ busy' = TRUE
                /\ progress' = 0
                /\ items' = <<>>
                /\ batch' = [no |-> batch.no + 1, files |-> files,
                             apiKey |-> settings.apiKey,
                             keywordsCount |-> settings.keywordsCount,
                             instr |-> <<instr>>, instructionHash |-> <<sha256(instr)>>,
                             hashCalls |-> 1, registered |-> FALSE]
                /\ pool' = [ret |-> [i \in 1..n |-> <<>>], next |-> st.next,
                            active |-> st.active, resolved |-> FALSE]
                /\ tasks' = [i \in 1..n |->
                               IF i <= st.next THEN [NewTask EXCEPT !.pc = "resize"]
                               ELSE NewTask]
                /\ startLog' = st.started
                /\ UNCHANGED <<files, settings, alert, history, cache, regens, env,
                               download, lib, dataTransfer, hist, selectedIds,
                               histPage>>

----------------------------------------------------------------------------
(* One call of fetch and one turn of withRetry's loop, shared by genOne and
   regenerate *)

\* a history write that stores nothing
saveHistoryItem_Lost(h, it) == h

\* saveHistoryItem: set('history-v1:' + it.id, it)
saveHistoryItem(h, it) == (it.id :> it) @@ h

\* fetch(url, body).then(r => { if (!r.ok) throw new Error(await r.text()); return r })
\* how is "net" (the request never reaches the route) or what the provider does
FetchOnce(req, c, how, reply) ==
    IF how = "net"
    THEN [ok |-> FALSE, error |-> "Failed to fetch", parsed |-> BadReply, cache |-> c,
          registered |-> FALSE]
    ELSE LET r == POST(req, c, how, reply)
         IN  IF r.status = 200
             THEN [ok |-> TRUE, error |-> "", parsed |-> r.text, cache |-> r.cache,
                   registered |-> r.cache # c]
             ELSE [ok |-> FALSE, error |-> r.text, parsed |-> BadReply,
                   cache |-> r.cache, registered |-> r.cache # c]

\* what the environment lets a fetch do
FetchHows == {"ok"} \cup (env \cap {"net", "provider", "shape"})

\* one turn of the for loop of withRetry on the locals loc = [t, last, calls, waits]:
\* "returned", "retry" (slept, t++) or "thrown" (throw last)
withRetryTurn(loc, res) ==
    IF res.ok
    THEN [state |-> "returned", t |-> loc.t, last |-> loc.last,
          calls |-> loc.calls + 1, waits |-> loc.waits]
    ELSE IF RetryAgain(loc.t)
    THEN [state |-> "retry", t |-> loc.t + 1, last |-> CatchAssign(loc.last, res.error),
          calls |-> loc.calls + 1, waits |-> Append(loc.waits, Backoff(loc.t))]
    ELSE [state |-> "thrown", t |-> loc.t + 1, last |-> CatchAssign(loc.last, res.error),
          calls |-> loc.calls + 1, waits |-> loc.waits]

----------------------------------------------------------------------------
(* genOne, one task of the batch *)

\* await resizeImageToMax1024(file)
Resize(i, ok) ==
    /\ i \in DOMAIN tasks
    /\ tasks[i].pc = "resize"
    /\ ok \/ "resize" \in env
    /\ tasks' = [tasks EXCEPT ![i] =
                   IF ok THEN [@ EXCEPT !.pc = "fetch"]
                   ELSE [@ EXCEPT !.pc = "saveErr",
                                  !.box = <<ErrBox(nanoid(batch.no, i, 1), batch.files[i],
                                                   "The source image could not be decoded.")>>]]
    /\ UNCHANGED <<files, settings, busy, progress, items, alert, history, cache, batch,
                   pool, startLog, regens, env, download, lib, dataTransfer, events,
                   hist, selectedIds, histPage>>

\* a genOne that reads the key and the instruction from the latest state
Closure_LatestState(b, st) ==
    LET instr == defaultInstruction([fileType |-> "photo",
                                     keywordsCount |-> st.keywordsCount])
    IN  [b EXCEPT !.apiKey = st.apiKey, !.keywordsCount = st.keywordsCount,
                  !.instr = <<instr>>, !.instructionHash = <<sha256(instr)>>]

\* genOne is a closure of the render in which Generate was clicked: apiKey, instr,
\* instructionHash and files are that render's constants, whatever the state st is
\* when the task runs
Closure(b, st) == b

\* one attempt of withRetry(() => fetch(...), 3, 600), and what follows it when
\* withRetry returns or throws: res.json(), isValidMeta, the box
Fetch(i, how, reply) ==
    /\ i \in DOMAIN tasks
    /\ tasks[i].pc = "fetch"
    /\ how \in FetchHows
    /\ LET cl   == Closure(batch, settings)
           file == cl.files[i]
           req  == Body(cl.apiKey, cl.instr[1], cl.instructionHash[1], file)
           res  == FetchOnce(req, cache, how, reply)
           turn == withRetryTurn(tasks[i], res)
           loc  == [tasks[i] EXCEPT !.t = turn.t, !.last = turn.last,
                                    !.calls = turn.calls, !.waits = turn.waits,
                                    !.req = <<req>>,
                                    !.outcome = IF res.ok THEN "ok" ELSE res.error]
       IN  /\ cache' = res.cache
           /\ batch' = [batch EXCEPT !.registered = @ \/ res.registered]
           /\ tasks' = [tasks EXCEPT ![i] =
                CASE turn.state = "retry" -> loc
                  [] turn.state = "thrown" ->
                       [loc EXCEPT !.pc = "saveErr",
                                   !.box = <<ErrBox(nanoid(batch.no, i, 1), file, turn.last)>>]
                  [] turn.state = "returned" /\ ~isValidMeta(res.parsed) ->
                       [loc EXCEPT !.pc = "saveErr",
                                   !.box = <<ErrBox(nanoid(batch.no, i, 1), file,
                                                    "Model returned invalid JSON shape.")>>]
                  [] OTHER ->
                       [loc EXCEPT !.pc = "save",
                                   !.box = <<OkBox(nanoid(batch.no, i, 0), file, file,
                                                   Fixed(res.parsed, batch.keywordsCount))>>]]
    /\ UNCHANGED <<files, settings, busy, progress, items, alert, history, pool,
                   startLog, regens, env, download, lib, dataTransfer, events, hist,
                   selectedIds, histPage>>

----------------------------------------------------------------------------
(* pLimit's callbacks and the end of runGeneration *)

\* onUpdate: setProgress(Math.round((done / files.length) * 100))
OnUpdateProgress(ret, total) == Round100(Len(FilterBoolean(ret)), total)

\* onUpdate: setItems(ret.filter(Boolean))
OnUpdateItems(ret) == FilterBoolean(ret)

\* a pool that resolves as soon as the last task has started
Finished_AllStarted(next, active, n) == next = n

\* finally: if (next === tasks.length && active === 0) resolve(ret)
Finished(next, active, n) == next = n /\ active = 0

\* a settled task's locals are gone
Settled == [NewTask EXCEPT !.pc = "settled"]

\* The promise of task i settles.  The callbacks run one after the other in the same
\* turn of the page's task queue: then (ret[idx] = r; onUpdate(ret)) when the task
\* fulfilled, finally (active--; resolve(ret) or run()) in both cases and, when pLimit
\* resolves, the rest of runGeneration (setBusy(false); setFiles([])).
Settle(i, fulfilled) ==
    LET n       == Len(tasks)
        ret1    == IF fulfilled THEN ThenWrite(pool.ret, i, tasks[i].box[1]) ELSE pool.ret
        active1 == pool.active - 1
        st      == run([next |-> pool.next, active |-> active1, started |-> <<>>], n)
    IN  /\ progress' = IF fulfilled THEN OnUpdateProgress(ret1, Len(batch.files))
                       ELSE progress
        /\ items' = IF fulfilled THEN OnUpdateItems(ret1) ELSE items
        /\ IF Finished(pool.next, active1, n)
           THEN /\ pool' = [ret |-> ret1, next |-> pool.next, active |-> active1,
                            resolved |-> TRUE]
                /\ tasks' = [tasks EXCEPT ![i] = Settled]
                /\ busy' = FALSE
                /\ files' = <<>>
                /\ UNCHANGED startLog
           ELSE /\ pool' = [ret |-> ret1, next |-> st.next, active |-> st.active,
                            resolved |-> FALSE]
                /\ tasks' = [k \in 1..n |->
                               IF k = i THEN Settled
                               ELSE IF k > pool.next /\ k <= st.next
                               THEN [NewTask EXCEPT !.pc = "resize"]
                               ELSE tasks[k]]
                /\ startLog' = startLog \o st.started
                /\ UNCHANGED <<busy, files>>

\* await saveHistoryItem(box) in genOne's try block.  Written: genOne returns the box
\* and the task fulfils.  Failed: genOne's catch builds the error box.
Save(i, ok) ==
    /\ i \in DOMAIN tasks
    /\ tasks[i].pc = "save"
    /\ ok \/ "storage" \in env
    /\ IF ok
       THEN /\ history' = saveHistoryItem(history, tasks[i].box[1])
            /\ Settle(i, TRUE)
       ELSE /\ tasks' = [tasks EXCEPT ![i] =
                  [@ EXCEPT !.pc = "saveErr",
                            !.box = <<ErrBox(nanoid(batch.no, i, 1), batch.files[i],
                                             "The history could not be written.")>>]]
            /\ UNCHANGED <<files, busy, progress, items, history, pool, startLog>>
    /\ UNCHANGED <<settings, alert, cache, batch, regens, env, download, lib,
                   dataTransfer, events, hist, selectedIds, histPage>>

\* await saveHistoryItem(box) in genOne's catch block.  Written: genOne returns the
\* error box.  Failed: nothing catches it and the task rejects.
SaveErr(i, ok) ==
    /\ i \in DOMAIN tasks
    /\ tasks[i].pc = "saveErr"
    /\ ok \/ "storage" \in env
    /\ history' = IF ok THEN saveHistoryItem(history, tasks[i].box[1]) ELSE history
    /\ Settle(i, ok)
    /\ UNCHANGED <<settings, alert, cache, batch, regens, env, download, lib,
                   dataTransfer, events, hist, selectedIds, histPage>>

----------------------------------------------------------------------------
(* Per-item handlers of the results list.  The editor of an item, with its Save,
   Tidy and Regenerate buttons, is rendered only while the item has no error
   ({it.error ? <pre>...</pre> : <editor/>}). *)

EditorShown(it) == it.error = ""

\* the title input: patchItemMeta(it.id, { title: e.target.value })
EditTitle(k, v) ==
    /\ UserEvent
    /\ k \in 1..Len(items)
    /\ EditorShown(items[k])
    /\ items' = patchItemMeta(items, items[k].id, [title |-> v])
    /\ items' # items
    /\ UNCHANGED <<files, settings, busy, progress, alert, history, cache, batch, pool,
                   tasks, startLog, regens, env, download, lib, dataTransfer, hist,
                   selectedIds, histPage>>

\* saveEdits: const it = items.find(...); if (it) await saveHistoryItem(it)
saveEdits(k, ok) ==
    /\ UserEvent
    /\ k \in 1..Len(items)
    /\ EditorShown(items[k])
    /\ ok \/ "storage" \in env
    /\ LET it == Find(items, items[k].id)
       IN  history' = IF ok /\ it # <<>> THEN saveHistoryItem(history, it[1]) ELSE history
    /\ UNCHANGED <<files, settings, busy, progress, items, alert, cache, batch, pool,
                   tasks, startLog, regens, env, download, lib, dataTransfer, hist,
                   selectedIds, histPage>>

\* tidyKeywords: clean the item's keywords with the current count, patch, save
tidyKeywords(k, ok) ==
    /\ UserEvent
    /\ k \in 1..Len(items)
    /\ EditorShown(items[k])
    /\ ok \/ "storage" \in env
    /\ LET it == Find(items, items[k].id)
       IN  /\ it # <<>>
           /\ it[1].meta # <<>>
           /\ LET cleaned == cleanKeywords(it[1].meta[1].keywords, settings.keywordsCount)
                  next    == Spread(it[1],
                                [meta |-> <<Spread(it[1].meta[1], [keywords |-> cleaned])>>])
              IN  /\ items' = patchItem(items, it[1].id, next)
                  /\ history' = IF ok THEN saveHistoryItem(history, next) ELSE history
    /\ UNCHANGED <<files, settings, busy, progress, alert, cache, batch, pool, tasks,
                   startLog, regens, env, download, lib, dataTransfer, hist,
                   selectedIds, histPage>>

\* regenerate, up to its first request: if (!it?.thumbDataUrl) return; setBusy(true);
\* the instruction and the request body are built from the current settings
regenerate(k) ==
    /\ UserEvent
    /\ k \in 1..Len(items)
    /\ EditorShown(items[k])
    /\ \E s \in 1..MaxRegens :
        /\ regens[s].pc = "idle"
        /\ \A r \in 1..(s - 1) : regens[r].pc # "idle"
        /\ LET it == Find(items, items[k].id)
           IN  /\ it # <<>>
               /\ it[1].thumbDataUrl # <<>>
               /\ regens' = [regens EXCEPT ![s] =
                     [NoRegen EXCEPT !.pc = "fetch", !.id = <<it[1].id>>, !.it = it,
                                     !.apiKey = settings.apiKey,
                                     !.keywordsCount = settings.keywordsCount]]
    /\ busy' = TRUE
    /\ UNCHANGED <<files, settings, progress, items, alert, history, cache, batch, pool,
                   tasks, startLog, env, download, lib, dataTransfer, hist, selectedIds,
                   histPage>>

\* one attempt of regenerate's withRetry and what follows when it returns or throws:
\* patchItem(id, updated) and the save, or the catch (patchItem(id, { error: msg }))
\* and the finally (setBusy(false))
RegenFetch(s, how, reply) ==
    /\ s \in 1..MaxRegens
    /\ regens[s].pc = "fetch"
    /\ how \in FetchHows
    /\ LET g     == regens[s]
           it    == g.it[1]
           instr == defaultInstruction([fileType |-> "photo",
                                        keywordsCount |-> g.keywordsCount])
           req   == Body(g.apiKey, instr, sha256(instr), it.thumbDataUrl[1])
           res   == FetchOnce(req, cache, how, reply)
           turn  == withRetryTurn(g, res)
           loc   == [g EXCEPT !.t = turn.t, !.last = turn.last, !.calls = turn.calls,
                              !.waits = turn.waits, !.req = <<req>>]
           upd   == Spread(it, [meta |-> <<Fixed(res.parsed, g.keywordsCount)>>,
                                error |-> ""])
       IN  /\ cache' = res.cache
           /\ CASE turn.state = "retry" ->
                     /\ regens' = [regens EXCEPT ![s] = loc]
                     /\ UNCHANGED <<items, busy>>
                [] turn.state = "thrown" ->
                     /\ items' = patchItem(items, it.id, [error |-> turn.last])
                     /\ regens' = [regens EXCEPT ![s] = NoRegen]
                     /\ busy' = FALSE
                [] turn.state = "returned" /\ ~isValidMeta(res.parsed) ->
                     /\ items' = patchItem(items, it.id,
                                           [error |-> "Model returned invalid JSON shape."])
                     /\ regens' = [regens EXCEPT ![s] = NoRegen]
                     /\ busy' = FALSE
                [] OTHER ->
                     /\ items' = patchItem(items, it.id, upd)
                     /\ regens' = [regens EXCEPT ![s] =
                                     [loc EXCEPT !.pc = "save", !.updated = <<upd>>]]
                     /\ UNCHANGED busy
    /\ UNCHANGED <<files, settings, progress, alert, history, batch, pool, tasks,
                   startLog, env, download, lib, dataTransfer, events, hist,
                   selectedIds, histPage>>

\* await saveHistoryItem(updated) in regenerate, its catch and its finally
RegenSave(s, ok) ==
    /\ s \in 1..MaxRegens
    /\ regens[s].pc = "save"
    /\ ok \/ "storage" \in env
    /\ history' = IF ok THEN saveHistoryItem(history, regens[s].updated[1]) ELSE history
    /\ items' = IF ok THEN items
                ELSE patchItem(items, regens[s].id[1],
                               [error |-> "The history could not be written."])
    /\ regens' = [regens EXCEPT ![s] = NoRegen]
    /\ busy' = FALSE
    /\ UNCHANGED <<files, settings, progress, alert, cache, batch, pool, tasks,
                   startLog, env, download, lib, dataTransfer, events, hist,
                   selectedIds, histPage>>

----------------------------------------------------------------------------
(* Specifications *)

\* the provider's answers to a fetch that it handles as how, out of the set R
Answers(how, R) == IF how = "ok" THEN R ELSE {ReplyA}

Next ==
    \/ AddFile
    \/ \E k \in Keys : SetApiKey(k)
    \/ \E n \in KwCounts : SetKeywordsCount(n)
    \/ DismissAlert
    \/ runGeneration
    \/ \E i \in DOMAIN tasks, ok \in BOOLEAN : Resize(i, ok)
    \/ \E i \in DOMAIN tasks, how \in FetchHows : \E reply \in Answers(how, {ReplyA}) :
          Fetch(i, how, reply)
    \/ \E i \in DOMAIN tasks, ok \in BOOLEAN : Save(i, ok)
    \/ \E i \in DOMAIN tasks, ok \in BOOLEAN : SaveErr(i, ok)
    \/ \E k \in 1..Len(items) : EditTitle(k, "edited title")
    \/ \E k \in 1..Len(items), ok \in BOOLEAN : saveEdits(k, ok)
    \/ \E k \in 1..Len(items), ok \in BOOLEAN : tidyKeywords(k, ok)
    \/ \E k \in 1..Len(items) : regenerate(k)
    \/ \E s \in 1..MaxRegens, how \in FetchHows : \E reply \in Answers(how, Replies) :
          RegenFetch(s, how, reply)
    \/ \E s \in 1..MaxRegens, ok \in BOOLEAN : RegenSave(s, ok)

Spec == Init /\ [][Next]_vars

\* The task runner on its own: the user has added 1 .. MaxPoolFiles files, has two
\* events left, and has a key; the only failure of the environment is the history write, the
\* provider always gives the same answer, and of the user's events only the adding
\* of files is followed.
InitPool ==
    /\ \E n \in 1..MaxPoolFiles :
          InitWith([i \in 1..n |-> i], MaxEvents - 2, {GoodKey}, {1}, {{"storage"}})
    /\ lib = NoCall

NextPool ==
    \/ AddFile
    \/ runGeneration
    \/ \E i \in DOMAIN tasks, ok \in BOOLEAN : Resize(i, ok)
    \/ \E i \in DOMAIN tasks : Fetch(i, "ok", ReplyA)
    \/ \E i \in DOMAIN tasks, ok \in BOOLEAN : Save(i, ok)
    \/ \E i \in DOMAIN tasks, ok \in BOOLEAN : SaveErr(i, ok)

SpecPool == InitPool /\ [][NextPool]_vars

\* pLimit(4, tasks, onUpdate) called with the task list of the selected files, without
\* runGeneration's early returns in front of it: new Array(tasks.length), next = 0,
\* active = 0 and the first run()
pLimit ==
    /\ batch.no = 0
    /\ LET n     == Len(files)
           instr == defaultInstruction([fileType |-> "photo",
                                        keywordsCount |-> settings.keywordsCount])
           st    == run([next |-> 0, active |-> 0, started |-> <<>>], n)
       IN  /\ batch' = [no |-> 1, files |-> files, apiKey |-> settings.apiKey,
                        keywordsCount |-> settings.keywordsCount,
                        instr |-> <<instr>>, instructionHash |-> <<sha256(instr)>>,
                        hashCalls |-> 1, registered |-> FALSE]
           /\ pool' = [ret |-> [i \in 1..n |-> <<>>], next |-> st.next,
                       active |-> st.active, resolved |-> FALSE]
           /\ tasks' = [i \in 1..n |->
                          IF i <= st.next THEN [NewTask EXCEPT !.pc = "resize"]
                          ELSE NewTask]
           /\ startLog' = st.started
    /\ busy' = TRUE
    /\ UNCHANGED <<files, settings, progress, items, alert, history, cache, regens, env,
                   download, lib, dataTransfer, events, hist, selectedIds, histPage>>

\* genOne from its start to its history write, as one step: the image is resized and
\* the provider answers the first request (the box is built), or something throws
\* (the error box is built)
Work(i, ok) ==
    /\ i \in DOMAIN tasks
    /\ tasks[i].pc = "resize"
    /\ LET file == batch.files[i]
       IN  tasks' = [tasks EXCEPT ![i] =
                IF ok
                THEN [@ EXCEPT !.pc = "save", !.calls = 1, !.outcome = "ok",
                               !.box = <<OkBox(nanoid(batch.no, i, 0), file, file,
                                               Fixed(ReplyA, batch.keywordsCount))>>]
                ELSE [@ EXCEPT !.pc = "saveErr",
                               !.box = <<ErrBox(nanoid(batch.no, i, 1), file,
                                                "The source image could not be decoded.")>>]]
    /\ UNCHANGED <<files, settings, busy, progress, items, alert, history, cache, batch,
                   pool, startLog, regens, env, download, lib, dataTransfer, events,
                   hist, selectedIds, histPage>>

\* a started task takes its next step
TaskStep ==
    \/ \E i \in DOMAIN tasks, ok \in BOOLEAN : Work(i, ok)
    \/ \E i \in DOMAIN tasks, ok \in BOOLEAN : Save(i, ok)
    \/ \E i \in DOMAIN tasks, ok \in BOOLEAN : SaveErr(i, ok)

\* The task runner called with any list of 0 .. MaxPoolFiles tasks.  The browser runs
\* every callback that is ready, so a started task that can take a step takes one:
\* every started task settles, fulfilled or rejected.
InitPLimit ==
    /\ \E n \in 0..MaxPoolFiles :
          InitWith([i \in 1..n |-> i], MaxEvents, {GoodKey}, {1}, {{"storage"}})
    /\ lib = NoCall

NextPLimit ==
    \/ pLimit
    \/ TaskStep

SpecPLimit == InitPLimit /\ [][NextPLimit]_vars /\ WF_vars(pLimit) /\ WF_vars(TaskStep)

----------------------------------------------------------------------------
(* The functions of src/lib/keywords.ts on their own *)

\* the characters of the texts: letters in both cases, the comma and the blank
Alphabet == {"a", "A", "b", ",", " "}

\* the texts of at most MaxText characters
Texts == UNION {[1..n -> Alphabet] : n \in 0..MaxText}

\* parseKeywords(input), as called by cleanKeywords, onChipDrop, addKeyword and the
\* rendering of the chips
CallParseKeywords ==
    /\ lib.fn = ""
    /\ lib' = [lib EXCEPT !.fn = "parseKeywords", !.output = <<parseKeywords(lib.input)>>]
    /\ UNCHANGED <<files, settings, busy, progress, items, alert, history, cache, batch,
                   pool, tasks, startLog, regens, env, events, download, dataTransfer,
                   hist, selectedIds, histPage>>

\* cleanKeywords(input, targetCount), as called by genOne, regenerate and tidyKeywords
CallCleanKeywords ==
    /\ lib.fn = ""
    /\ lib' = [lib EXCEPT !.fn = "cleanKeywords",
                          !.output = <<cleanKeywords(lib.input, lib.targetCount)>>]
    /\ UNCHANGED <<files, settings, busy, progress, items, alert, history, cache, batch,
                   pool, tasks, startLog, regens, env, events, download, dataTransfer,
                   hist, selectedIds, histPage>>

\* the page at rest and a call about to be made: the text is what the provider
\* answered or what the item holds, the count is the keywords-count setting
InitLib ==
    /\ InitWith(<<>>, MaxEvents, {NoKey}, {1}, {{}})
    /\ lib \in [fn : {""}, input : Texts, targetCount : 0..MaxCount, output : {<<>>}]

NextLib ==
    \/ CallParseKeywords
    \/ CallCleanKeywords

SpecLib == InitLib /\ [][NextLib]_vars

----------------------------------------------------------------------------
(* src/lib/csv.ts, and the chips row of the page *)

\* the column names of the exports, as texts
HFilename == <<"F", "i", "l", "e", "n", "a", "m", "e">>
HTitle == <<"T", "i", "t", "l", "e">>
HDescription == <<"D", "e", "s", "c", "r", "i", "p", "t", "i", "o", "n">>
HKeywords == <<"K", "e", "y", "w", "o", "r", "d", "s">>
HCategory == <<"C", "a", "t", "e", "g", "o", "r", "y">>
hfilename == <<"f", "i", "l", "e", "n", "a", "m", "e">>
htitle == <<"t", "i", "t", "l", "e">>
hdescription == <<"d", "e", "s", "c", "r", "i", "p", "t", "i", "o", "n">>
hkeywords == <<"k", "e", "y", "w", "o", "r", "d", "s">>

Agencies == {"adobe", "shutterstock", "vecteezy", "freepik", "dreamstime"}

\* it.meta?.title || '', and the same for the description and the keywords
MetaOr(it, f) == IF it.meta = <<>> THEN <<>> ELSE it.meta[1][f]

\* .replace(/,\s+/g, ','): a comma loses the blanks that follow it
RECURSIVE ReplaceCommaBlanks(_)
ReplaceCommaBlanks(s) ==
    IF s = <<>> THEN <<>>
    ELSE IF s[1] = "," THEN <<",">> \o ReplaceCommaBlanks(TrimLeft(Tail(s)))
    ELSE <<s[1]>> \o ReplaceCommaBlanks(Tail(s))

\* an escape that leaves the quotes of a value single
Escape_Single(s) == s

\* str.replace(/"/g, '""'), the escape of Papa.unparse
RECURSIVE Escape(_)
Escape(s) ==
    IF s = <<>> THEN <<>>
    ELSE IF s[1] = "\"" THEN <<"\"", "\"">> \o Escape(Tail(s))
    ELSE <<s[1]>> \o Escape(Tail(s))

\* a field under { quotes: true }
Quoted(s) == <<"\"">> \o Escape(s) \o <<"\"">>

\* pieces.join(sep)
RECURSIVE JoinWith(_, _)
JoinWith(pieces, sep) ==
    IF pieces = <<>> THEN <<>>
    ELSE IF Len(pieces) = 1 THEN pieces[1]
    ELSE pieces[1] \o sep \o JoinWith(Tail(pieces), sep)

\* one line of the output: the quoted fields, comma-separated
Line(values) == JoinWith([c \in 1..Len(values) |-> Quoted(values[c])], <<",">>)

\* Papa.unparse(data, { quotes: true }) on an array of objects whose keys are
\* fields: nothing for no object, else the line of the keys and a line per object,
\* joined with "\r\n"
unparse(fields, data) ==
    IF data = <<>> THEN <<>>
    ELSE JoinWith(<<Line(fields)>> \o [r \in 1..Len(data) |-> Line(data[r])],
                  <<"\r", "\n">>)

\* the keys of the objects that each export builds, in the order it writes them
Fields(agency) ==
    CASE agency = "adobe" -> <<HFilename, HTitle, HKeywords, HCategory>>
      [] agency = "shutterstock" -> <<HFilename, HTitle, HDescription, HKeywords>>
      [] agency = "vecteezy" -> <<HFilename, HTitle, HDescription, HKeywords>>
      [] agency = "freepik" -> <<hfilename, htitle, hkeywords>>
      [] agency = "dreamstime" -> <<hfilename, hdescription, hkeywords>>

\* the object that each export builds from an item
Row(agency, it) ==
    CASE agency = "adobe" ->
            <<it.filename, MetaOr(it, "title"), MetaOr(it, "keywords"), <<>>>>
      [] agency = "shutterstock" ->
            <<it.filename, MetaOr(it, "title"), MetaOr(it, "description"),
              MetaOr(it, "keywords")>>
      [] agency = "vecteezy" ->
            <<it.filename, MetaOr(it, "title"), MetaOr(it, "description"),
              ReplaceCommaBlanks(MetaOr(it, "keywords"))>>
      [] agency = "freepik" ->
            <<it.filename, MetaOr(it, "title"),
              ReplaceCommaBlanks(MetaOr(it, "keywords"))>>
      [] agency = "dreamstime" ->
            <<it.filename, MetaOr(it, "description"),
              ReplaceCommaBlanks(MetaOr(it, "keywords"))>>

\* const data = items.map(it => ({ ... }))
Data(agency, rows) == [r \in 1..Len(rows) |-> Row(agency, rows[r])]

adobeCSV(rows) == unparse(Fields("adobe"), Data("adobe", rows))
shutterstockCSV(rows) == unparse(Fields("shutterstock"), Data("shutterstock", rows))
vecteezyCSV(rows) == unparse(Fields("vecteezy"), Data("vecteezy", rows))
freepikCSV(rows) == unparse(Fields("freepik"), Data("freepik", rows))
dreamstimeCSV(rows) == unparse(Fields("dreamstime"), Data("dreamstime", rows))

exportCSV(agency, rows) ==
    CASE agency = "adobe" -> adobeCSV(rows)
      [] agency = "shutterstock" -> shutterstockCSV(rows)
      [] agency = "vecteezy" -> vecteezyCSV(rows)
      [] agency = "freepik" -> freepikCSV(rows)
      [] agency = "dreamstime" -> dreamstimeCSV(rows)

\* an export button of the results card: downloadAgencyCSV(agency, items); the
\* file is named after the agency and the second of the click
downloadAgencyCSV(agency) ==
    /\ UserEvent
    /\ Len(items) > 0
    /\ download' = <<[agency |-> agency, csv |-> exportCSV(agency, items)]>>
    /\ UNCHANGED <<files, settings, busy, progress, items, alert, history, cache, batch,
                   pool, tasks, startLog, regens, env, lib, dataTransfer, hist,
                   selectedIds, histPage>>

\* a JavaScript number that may be NaN: no element for NaN, else the integer
NaN == <<>>
Num(n) == <<n>>

\* a < b and a >= b on such numbers: false as soon as one side is NaN
Lt(a, b) == a # NaN /\ b # NaN /\ a[1] < b[1]
Ge(a, b) == a # NaN /\ b # NaN /\ a[1] >= b[1]

Digits == <<"0", "1", "2", "3", "4", "5", "6", "7", "8", "9">>
IsDigit(c) == \E d \in 1..10 : Digits[d] = c
DigitOf(c) == (CHOOSE d \in 1..10 : Digits[d] = c) - 1

\* String(idx), idx a chip's position
RECURSIVE String(_)
String(n) ==
    IF n < 10 THEN <<Digits[n + 1]>>
    ELSE String(n \div 10) \o <<Digits[(n % 10) + 1]>>

\* the value of the digits that a text starts with, after the value so far
RECURSIVE DigitsValue(_, _)
DigitsValue(s, acc) ==
    IF s = <<>> \/ ~IsDigit(s[1]) THEN acc
    ELSE DigitsValue(Tail(s), (10 * acc) + DigitOf(s[1]))

\* parseInt(text, 10): blanks skipped, a sign, then digits; NaN without a digit
parseInt(text) ==
    LET s    == TrimLeft(text)
        neg  == s # <<>> /\ s[1] = "-"
        body == IF s # <<>> /\ s[1] \in {"-", "+"} THEN Tail(s) ELSE s
    IN  IF body = <<>> \/ ~IsDigit(body[1]) THEN NaN
        ELSE Num(IF neg THEN 0 - DigitsValue(body, 0) ELSE DigitsValue(body, 0))

\* the start that arr.splice(start, ...) uses: NaN counts as 0, a negative start
\* counts from the end, and the start is clamped to the array
SpliceStart(x, len) ==
    IF x = NaN THEN 0
    ELSE IF x[1] < 0 THEN (IF len + x[1] < 0 THEN 0 ELSE len + x[1])
    ELSE IF x[1] > len THEN len ELSE x[1]

\* const [moved] = arr.splice(from, 1); arr.splice(to, 0, moved), on an array
\* that has an element at the start of the first splice
Moved(arr, from, to) ==
    LET a    == SpliceStart(from, Len(arr))
        rest == SubSeq(arr, 1, a) \o SubSeq(arr, a + 2, Len(arr))
        b    == SpliceStart(to, Len(rest))
    IN  SubSeq(rest, 1, b) \o <<arr[a + 1]>> \o SubSeq(rest, b + 1, Len(rest))

\* onChipDrop(itemId, from, to): the items it leaves
onChipDrop(prev, itemId, from, to) ==
    LET it == Find(prev, itemId)
    IN  IF it = <<>> \/ it[1].meta = <<>> THEN prev
        ELSE LET arr == parseKeywords(it[1].meta[1].keywords)
                 len == Num(Len(arr))
             IN  IF Lt(from, Num(0)) \/ Ge(from, len) \/ Lt(to, Num(0)) \/ Ge(to, len)
                 THEN prev
                 ELSE patchItemMeta(prev, itemId,
                                    [keywords |-> join(Moved(arr, from, to))])

\* the chips that the page shows for item k: parseKeywords(it.meta?.keywords || '')
Chips(k) == parseKeywords(MetaOr(items[k], "keywords"))

\* onDragStart of chip idx of item k: e.dataTransfer.setData('text/plain', String(idx))
onDragStart(k, idx) ==
    /\ UserEvent
    /\ k \in 1..Len(items)
    /\ EditorShown(items[k])
    /\ idx \in 0..(Len(Chips(k)) - 1)
    /\ dataTransfer' = <<String(idx)>>
    /\ UNCHANGED <<files, settings, busy, progress, items, alert, history, cache, batch,
                   pool, tasks, startLog, regens, env, download, lib, hist, selectedIds,
                   histPage>>

\* texts that a drag begun elsewhere carries: none for a file of the desktop,
\* else the text of a selection
ForeignTexts == {<<>>, <<"a">>, <<"-", "1">>, <<"7">>}

\* a drag that no chip began comes over the page
ForeignDrag(text) ==
    /\ UserEvent
    /\ text \in ForeignTexts
    /\ dataTransfer' = <<text>>
    /\ UNCHANGED <<files, settings, busy, progress, items, alert, history, cache, batch,
                   pool, tasks, startLog, regens, env, download, lib, hist, selectedIds,
                   histPage>>

\* onDrop of chip idx of item k: from = parseInt(getData('text/plain'), 10),
\* to = idx, onChipDrop(it.id, from, to); the drag is over
onDrop(k, idx) ==
    /\ UserEvent
    /\ dataTransfer # <<>>
    /\ k \in 1..Len(items)
    /\ EditorShown(items[k])
    /\ idx \in 0..(Len(Chips(k)) - 1)
    /\ items' = onChipDrop(items, items[k].id, parseInt(dataTransfer[1]), Num(idx))
    /\ dataTransfer' = <<>>
    /\ UNCHANGED <<files, settings, busy, progress, alert, history, cache, batch, pool,
                   tasks, startLog, regens, env, download, lib, hist, selectedIds,
                   histPage>>

\* the values that the fields of a shown item take: what the provider answered,
\* then what the user typed
FieldChars == {"a", "\"", ","}
Fields0 == UNION {[1..n -> FieldChars] : n \in 0..MaxField}
Names == {<<"f">>, <<"f", "\"">>}
Words == {<<"a">>, <<"b">>, <<"A">>}
ChipLists == UNION {[1..n -> Words] : n \in 0..MaxChips}

\* the items of a page whose batch is over: the item under examination, alone or
\* next to an item whose request failed
Shown ==
    {[name |-> n, title |-> t, description |-> <<"a">>,
      keywords |-> <<"a", ",", " ", "b">>] : n \in Names, t \in Fields0}
    \cup {[name |-> <<"f">>, title |-> <<"a">>, description |-> <<>>,
           keywords |-> join(l)] : l \in ChipLists}

ItemOf(k, x) ==
    OkBox(nanoid(1, k, 0), x.name, k,
          [title |-> x.title, description |-> x.description, keywords |-> x.keywords])

Failed(k) == ErrBox(nanoid(1, k, 1), <<"g">>, "Request failed")

InitItems ==
    /\ \E x \in Shown :
          items \in {<<ItemOf(1, x)>>, <<ItemOf(1, x), Failed(2)>>,
                     <<Failed(1), ItemOf(2, x)>>}
    /\ files = [k \in 1..Len(items) |-> k]
    /\ settings = [apiKey |-> GoodKey, keywordsCount |-> 1]
    /\ busy = FALSE
    /\ progress = 100
    /\ alert = FALSE
    /\ history = <<>>
    /\ cache = <<>>
    /\ batch = NoBatch
    /\ pool = NoPool
    /\ tasks = <<>>
    /\ startLog = <<>>
    /\ regens = [s \in 1..MaxRegens |-> NoRegen]
    /\ env = {"storage"}
    /\ events = MaxEvents - 2
    /\ download = <<>>
    /\ dataTransfer = <<>>
    /\ hist = [items |-> <<>>, total |-> 0]
    /\ selectedIds = {}
    /\ histPage = 0
    /\ lib = NoCall

NextItems ==
    \/ \E agency \in Agencies : downloadAgencyCSV(agency)
    \/ \E k \in 1..Len(items), idx \in 0..MaxChips : onDragStart(k, idx)
    \/ \E text \in ForeignTexts : ForeignDrag(text)
    \/ \E k \in 1..Len(items), idx \in 0..MaxChips : onDrop(k, idx)

SpecItems == InitItems /\ [][NextItems]_vars

----------------------------------------------------------------------------
(* The keyword chips of a shown item: add, remove, reorder *)

\* new Set(arr.map(s => s.toLowerCase()))
LowerSet(arr) == {toLowerCase(arr[i]) : i \in 1..Len(arr)}

\* arr.filter((_, i) => i !== idx), idx counted from 0
FilterOut(arr, idx) ==
    SubSeq(arr, 1, idx) \o SubSeq(arr, idx + 2, Len(arr))

\* addKeyword on the items prev, newKw being the text of the item's input:
\* kw = newKw.trim(); if (!it || !kw) return; if (lower.has(kw.toLowerCase())) return;
\* arr.push(kw); patchItemMeta(itemId, { keywords: arr.join(', ') })
AddedTo(prev, itemId, newKw) ==
    LET it == Find(prev, itemId)
        kw == trim(newKw)
    IN  IF it = <<>> \/ kw = <<>> THEN prev
        ELSE LET arr == parseKeywords(IF it[1].meta = <<>> THEN <<>>
                                      ELSE it[1].meta[1].keywords)
             IN  IF toLowerCase(kw) \in LowerSet(arr) THEN prev
                 ELSE patchItemMeta(prev, itemId, [keywords |-> join(Append(arr, kw))])

\* the user types newKw into the input of item k and presses Add; the input is
\* emptied afterwards, so every click comes with a text typed for it
addKeyword(k, newKw) ==
    /\ UserEvent
    /\ k \in 1..Len(items)
    /\ EditorShown(items[k])
    /\ items' = AddedTo(items, items[k].id, newKw)
    /\ lib' = [fn |-> "addKeyword", input |-> <<newKw>>, targetCount |-> 0,
               output |-> <<events'>>]
    /\ UNCHANGED <<files, settings, busy, progress, alert, history, cache, batch, pool,
                   tasks, startLog, regens, env, download, dataTransfer, hist,
                   selectedIds, histPage>>

\* the x button of chip idx of item k:
\* patchItemMeta(it.id, { keywords: arr.filter((_, i) => i !== idx).join(', ') })
removeKeyword(k, idx) ==
    /\ UserEvent
    /\ k \in 1..Len(items)
    /\ EditorShown(items[k])
    /\ idx \in 0..(Len(Chips(k)) - 1)
    /\ items' = patchItemMeta(items, items[k].id,
                              [keywords |-> join(FilterOut(Chips(k), idx))])
    /\ lib' = [fn |-> "removeKeyword", input |-> <<idx>>, targetCount |-> 0,
               output |-> <<events'>>]
    /\ UNCHANGED <<files, settings, busy, progress, alert, history, cache, batch, pool,
                   tasks, startLog, regens, env, download, dataTransfer, hist,
                   selectedIds, histPage>>

\* the texts that the user types into the input of a new keyword
NewKws == UNION {[1..n -> Alphabet] : n \in 0..MaxTyped}

\* an item with any list of at most MaxChips chips is shown, alone or after an item
\* whose request failed; the batch is over
InitChips ==
    /\ \E l \in ChipLists :
          LET x == [name |-> <<"f">>, title |-> <<"a">>, description |-> <<>>,
                    keywords |-> join(l)]
          IN  items \in {<<ItemOf(1, x)>>, <<Failed(1), ItemOf(2, x)>>}
    /\ files = <<>>
    /\ settings = [apiKey |-> GoodKey, keywordsCount |-> 1]
    /\ busy = FALSE
    /\ progress = 100
    /\ alert = FALSE
    /\ history = <<>>
    /\ cache = <<>>
    /\ batch = NoBatch
    /\ pool = NoPool
    /\ tasks = <<>>
    /\ startLog = <<>>
    /\ regens = [s \in 1..MaxRegens |-> NoRegen]
    /\ env = {}
    /\ events = MaxEvents - 2
    /\ download = <<>>
    /\ dataTransfer = <<>>
    /\ hist = [items |-> <<>>, total |-> 0]
    /\ selectedIds = {}
    /\ histPage = 0
    /\ lib = NoCall

NextChips ==
    \/ \E k \in 1..Len(items), newKw \in NewKws : addKeyword(k, newKw)
    \/ \E k \in 1..Len(items), idx \in 0..MaxChips : removeKeyword(k, idx)
    \/ \E k \in 1..Len(items), idx \in 0..MaxChips : onDragStart(k, idx)
    \/ \E k \in 1..Len(items), idx \in 0..MaxChips : onDrop(k, idx)

SpecChips == InitChips /\ [][NextChips]_vars

----------------------------------------------------------------------------
(* src/lib/store.ts: loadHistory, and the History tab of the page *)

\* const HISTORE = 'history-v1'
HISTORE == <<"h", "i", "s", "t", "o", "r", "y", "-", "v", "1">>

\* `${HISTORE}:${it.id}`, the key under which saveHistoryItem stores a record
KeyOf(id) == HISTORE \o <<":">> \o id

\* the id that a history key ends with
IdOf(key) == SubSeq(key, Len(HISTORE) + 2, Len(key))

\* k.startsWith(prefix)
startsWith(k, prefix) == Len(k) >= Len(prefix) /\ SubSeq(k, 1, Len(prefix)) = prefix

\* the characters of the keys, in the order of their UTF-16 code units
CodeUnitOrder ==
    <<"-", "0", "1", "2", "3", "4", "5", "6", "7", "8", "9", ":",
      "h", "i", "o", "r", "s", "t", "v", "y">>
CodeOf(c) == CHOOSE n \in 1..Len(CodeUnitOrder) : CodeUnitOrder[n] = c

\* a < b as Array.prototype.sort() compares two strings: at the first position
\* where they differ the smaller code unit decides, else the shorter one is first
StringLess(a, b) ==
    LET n == IF Len(a) < Len(b) THEN Len(a) ELSE Len(b)
        D == {i \in 1..n : a[i] # b[i]}
    IN  IF D = {} THEN Len(a) < Len(b)
        ELSE LET i == CHOOSE d \in D : \A e \in D : d <= e
             IN  CodeOf(a[i]) < CodeOf(b[i])

\* the distinct strings of S in ascending order
Ascend(S) ==
    [n \in 1..Cardinality(S) |->
        CHOOSE k \in S : Cardinality({x \in S : StringLess(x, k)}) = n - 1]

\* await keys(): every key of the store; idb-keyval lists them in key order
keys(h) == Ascend({KeyOf(id) : id \in DOMAIN h})

\* arr.sort() on an array of distinct strings
sort(arr) == Ascend({arr[i] : i \in 1..Len(arr)})

\* arr.reverse()
reverse(arr) == [i \in 1..Len(arr) |-> arr[Len(arr) + 1 - i]]

\* the index that arr.slice uses for a bound: a negative one counts from the end,
\* and the bound is clamped to the array
SliceBound(x, len) ==
    IF x < 0 THEN (IF len + x < 0 THEN 0 ELSE len + x)
    ELSE IF x > len THEN len ELSE x

\* arr.slice(start, end)
slice(arr, start, end) ==
    SubSeq(arr, SliceBound(start, Len(arr)) + 1, SliceBound(end, Len(arr)))

\* get<ItemMetaBox>(k): the record stored under the key, or undefined
get(h, k) == IF IdOf(k) \in DOMAIN h THEN <<h[IdOf(k)]>> ELSE <<>>

\* Boolean(x) on an optional record
Boolean(x) == x # <<>>

HasPrefix(k) == startsWith(k, HISTORE \o <<":">>)

\* a page that starts one page too far
PageStart_NextPage(page, size) == (page + 1) * size

\* const start = page * pageSize
PageStart(page, size) == page * size

\* loadHistory(page, pageSize) on the store h
loadHistory(h, page, size) ==
    LET allKeys  == keys(h)
        histKeys == reverse(sort(SelectSeq(allKeys, HasPrefix)))
        start    == PageStart(page, size)
        pageKeys == slice(histKeys, start, start + size)
        got      == [k \in 1..Len(pageKeys) |-> get(h, pageKeys[k])]
        found    == SelectSeq(got, Boolean)
    IN  [items |-> [k \in 1..Len(found) |-> found[k][1]], total |-> Len(histKeys)]

\* Math.ceil(total / pageSize), pageSize at least 1
Ceil(total, size) == (total + size - 1) \div size

\* loadHistory(page, pageSize) called for the next page of a walk through the
\* store: pages 0, 1, ... up to the first page after the last one
CallLoadHistory ==
    /\ lib.fn \in {"", "loadHistory"}
    /\ lib.input # <<>>
    /\ LET size     == lib.input[1]
           page     == Len(lib.output)
       IN  /\ page <= Ceil(Cardinality(DOMAIN history), size)
           /\ lib' = [lib EXCEPT !.fn = "loadHistory",
                                 !.output = Append(@, loadHistory(history, page, size))]
    /\ UNCHANGED <<files, settings, busy, progress, items, alert, history, cache, batch,
                   pool, tasks, startLog, regens, env, events, download, dataTransfer,
                   hist, selectedIds, histPage>>

\* const totalPages = Math.ceil(hist.total / pageSize)
totalPages == Ceil(hist.total, pageSize)

\* const allSelectable = hist.items.filter((i) => !i.error)
NoError(i) == i.error = ""
allSelectable == SelectSeq(hist.items, NoError)

\* const allSelected = selectedCount > 0 && selectedCount === allSelectable.length
allSelected ==
    Cardinality(selectedIds) > 0 /\ Cardinality(selectedIds) = Len(allSelectable)

\* refreshHistory, run by the effect when the History tab is opened or histPage
\* has changed: setHist(await loadHistory(histPage, pageSize)); setSelectedIds(new Set())
refreshHistory ==
    /\ UserEvent
    /\ hist' = loadHistory(history, histPage, pageSize)
    /\ selectedIds' = {}
    /\ UNCHANGED <<files, settings, busy, progress, items, alert, history, cache, batch,
                   pool, tasks, startLog, regens, env, download, lib, dataTransfer,
                   histPage>>

\* the select button of the item at position k of the page: toggleSelect(it.id)
toggleSelect(k) ==
    /\ UserEvent
    /\ k \in 1..Len(hist.items)
    /\ LET id == hist.items[k].id
       IN  selectedIds' = IF id \in selectedIds THEN selectedIds \ {id}
                          ELSE selectedIds \cup {id}
    /\ UNCHANGED <<files, settings, busy, progress, items, alert, history, cache, batch,
                   pool, tasks, startLog, regens, env, download, lib, dataTransfer,
                   hist, histPage>>

\* the select-all button: toggleSelectAll
toggleSelectAll ==
    /\ UserEvent
    /\ selectedIds' = IF allSelected THEN {}
                      ELSE {allSelectable[k].id : k \in 1..Len(allSelectable)}
    /\ UNCHANGED <<files, settings, busy, progress, items, alert, history, cache, batch,
                   pool, tasks, startLog, regens, env, download, lib, dataTransfer,
                   hist, histPage>>

\* the ids of the stored records: nanoid strings, here the numerals from 8 on,
\* whose order as strings is not their order as numbers
StoreIds == {String(7 + n) : n \in 1..MaxRecords}

\* a stored record: a generated item or an item whose request failed
StoredRecord(id, failed) ==
    IF failed THEN ErrBox(id, <<"f">>, "Request failed")
    ELSE OkBox(id, <<"f">>, 1,
               [title |-> <<"a">>, description |-> <<"a">>, keywords |-> <<"a">>])

\* the stores that earlier batches can have left
Stores ==
    UNION {[S -> BOOLEAN] : S \in SUBSET StoreIds}

\* the page at rest over a store: either a walk through the store is about to be
\* made with some page size and the page is left alone, or the user is about to
\* open the History tab
InitHistory ==
    /\ \E f \in Stores : history = [id \in DOMAIN f |-> StoredRecord(id, f[id])]
    /\ \/ /\ \E n \in 1..MaxPageSize :
                lib = [fn |-> "", input |-> <<n>>, targetCount |-> 0, output |-> <<>>]
          /\ events = MaxEvents
       \/ /\ lib = NoCall
          /\ events = 0
    /\ files = <<>>
    /\ settings = [apiKey |-> GoodKey, keywordsCount |-> 1]
    /\ busy = FALSE
    /\ progress = 0
    /\ items = <<>>
    /\ alert = FALSE
    /\ cache = <<>>
    /\ batch = NoBatch
    /\ pool = NoPool
    /\ tasks = <<>>
    /\ startLog = <<>>
    /\ regens = [s \in 1..MaxRegens |-> NoRegen]
    /\ env = {}
    /\ download = <<>>
    /\ dataTransfer = <<>>
    /\ hist = [items |-> <<>>, total |-> 0]
    /\ selectedIds = {}
    /\ histPage = 0

NextHistory ==
    \/ CallLoadHistory
    \/ refreshHistory
    \/ \E k \in 1..MaxRecords : toggleSelect(k)
    \/ toggleSelectAll

SpecHistory == InitHistory /\ [][NextHistory]_vars

----------------------------------------------------------------------------
(* The generation route as an HTTP endpoint: requests of any client *)

\* a key of the other provider
OtherKey == [prefix |-> "sk-", len |-> 51]

\* the instruction texts of the clients, and the hashes they send
Instructions ==
    {defaultInstruction([fileType |-> "photo", keywordsCount |-> n]) : n \in 1..MaxInstructions}
Hashes == {sha256(i) : i \in Instructions}

\* the JSON objects that a client can post: each field absent, ill-formed or
\* well-formed, the hash that of the instruction or not
Objects ==
    [apiKey : {NoKey, OtherKey, GoodKey},
     model : {"", "gpt-4o", GEMINI_MODEL},
     instruction : {<<>>} \cup {<<i>> : i \in Instructions},
     instructionHash : {<<>>} \cup {<<h>> : h \in Hashes},
     imageDataUrl : {<<>>, <<NotADataUrl>>, <<1>>}]

\* the bodies that a client can post: text that is not JSON, the JSON value null,
\* or a JSON object
Bodies ==
    {[kind |-> k, fields |-> <<>>] : k \in {"malformed", "null"}}
    \cup {[kind |-> "object", fields |-> o] : o \in Objects}

\* a client posts a body and the route answers; the instruction cache lives as
\* long as the server instance
Request(body, upstream, reply) ==
    /\ body \in Bodies
    /\ upstream \in {"ok", "provider"}
    /\ LET r == Handler(body, cache, upstream, reply)
       IN  /\ lib' = [fn |-> "POST", input |-> <<body>>, targetCount |-> 0,
                      output |-> <<r>>]
           /\ cache' = r.cache
    /\ UNCHANGED <<files, settings, busy, progress, items, alert, history, batch, pool,
                   tasks, startLog, regens, env, events, download, dataTransfer, hist,
                   selectedIds, histPage>>

\* a server instance that has handled no request, the page left alone
InitRoute ==
    /\ InitWith(<<>>, MaxEvents, {NoKey}, {1}, {{}})
    /\ lib = NoCall

NextRoute ==
    \E body \in Bodies, upstream \in {"ok", "provider"} : Request(body, upstream, ReplyA)

SpecRoute == InitRoute /\ [][NextRoute]_vars

----------------------------------------------------------------------------
(* Vocabulary of the claims *)

\* task i has been started and has not settled
InFlight(i) == tasks[i].pc \in {"resize", "fetch", "save", "saveErr"}

\* the step sends a request of task i of the running batch
TaskSends(i) ==
    /\ batch'.no = batch.no
    /\ i \in DOMAIN tasks
    /\ tasks[i].pc = "fetch"
    /\ tasks'[i] # tasks[i]

\* the step sends a request of the regenerate call in slot s
RegenSends(s) == regens[s].pc = "fetch" /\ regens'[s] # regens[s]

\* an item record has metadata or an error, and not both
MetaXorError(it) == (it.meta # <<>>) # (it.error # "")

\* the slots of the results array that hold a record
Filled(ret) == {j \in DOMAIN ret : ret[j] # <<>>}

\* a character of a keyword: neither the separator nor a blank
IsLetter(c) == c \notin {",", " "}

\* two keywords that differ at most in the case of their letters
SameIgnoringCase(x, y) ==
    /\ Len(x) = Len(y)
    /\ \A i \in 1..Len(x) : x[i] = y[i] \/ {x[i], y[i]} \in {{"a", "A"}, {"b", "B"}}

\* the numbers of a set in increasing order
RECURSIVE Ascending(_)
Ascending(S) ==
    IF S = {} THEN <<>>
    ELSE LET m == CHOOSE x \in S : \A y \in S : x <= y
         IN  <<m>> \o Ascending(S \ {m})

\* the keywords a text denotes: between two commas, from the first to the last
\* character that is not a blank, where there is such a character
KeywordsOf(text) ==
    LET n      == Len(text)
        Blank(a, b) == \A m \in a..b : text[m] = " "
        NoComma(a, b) == \A m \in a..b : text[m] # ","
        starts == {i \in 1..n : IsLetter(text[i]) /\
                       \E j \in 1..i : NoComma(j, i) /\ Blank(j, i - 1) /\
                                        (j = 1 \/ text[j - 1] = ",")}
        ends   == {i \in 1..n : IsLetter(text[i]) /\
                       \E j \in i..n : NoComma(i, j) /\ Blank(i + 1, j) /\
                                        (j = n \/ text[j + 1] = ",")}
        a      == Ascending(starts)
        b      == Ascending(ends)
    IN  [k \in 1..Len(a) |-> SubSeq(text, a[k], b[k])]

\* the keywords of a list that differ from every earlier one in more than case
DistinctKeywords(kws) ==
    LET idx == Ascending({i \in 1..Len(kws) :
                            \A j \in 1..(i - 1) : ~SameIgnoringCase(kws[j], kws[i])})
    IN  [k \in 1..Len(idx) |-> kws[idx[k]]]

Min(a, b) == IF a <= b THEN a ELSE b

----------------------------------------------------------------------------
(* C1..C10 *)

\* C1: when a batch finishes, the results hold exactly one record per input file, in
\* whatever way each file ended, a failed file's record carrying the failure message.
C1_OneRecordPerFile ==
    pool.resolved =>
        /\ Len(items) = Len(batch.files)
        /\ \A k \in 1..Len(items) :
              /\ items[k].filename = batch.files[k]
              /\ items[k].meta = <<>> => items[k].error # ""

\* C2: during a batch at most 4 tasks have been started and have not settled.
C2_AtMostFourInFlight ==
    Cardinality({i \in DOMAIN tasks : InFlight(i)}) <= 4

\* C2 witness: four tasks are in flight while a fifth waits.
C2_Witness ==
    /\ Cardinality({i \in DOMAIN tasks : InFlight(i)}) = 4
    /\ \E i \in DOMAIN tasks : tasks[i].pc = "pending"
    /\ \E i \in DOMAIN tasks : tasks[i].pc = "saveErr"

\* C3: withRetry(fn, 3, 600) calls the request at most 3 times, never again after an
\* attempt that succeeded, and when all 3 attempts fail it throws the error of the
\* last attempt (which genOne's catch puts on the record).
C3_RetryAtMostThrice ==
    /\ \A i \in DOMAIN tasks :
          /\ tasks[i].calls <= 3
          /\ tasks[i].pc = "fetch" => tasks[i].outcome # "ok" /\ tasks[i].calls < 3
          /\ (tasks[i].pc = "saveErr" /\ tasks[i].outcome \notin {"", "ok"}) =>
                /\ tasks[i].calls = 3
                /\ tasks[i].box[1].error = tasks[i].outcome
          /\ tasks[i].calls = 3 /\ tasks[i].outcome # "ok" => tasks[i].pc = "saveErr"
    /\ \A s \in DOMAIN regens :
          /\ regens[s].calls <= 3
          /\ regens[s].pc = "fetch" => regens[s].calls < 3

\* C3 witness: a task whose three attempts failed, the first on the network and the
\* last at the provider, carries the provider's error.
C3_Witness ==
    \E i \in DOMAIN tasks :
        /\ tasks[i].pc = "saveErr"
        /\ tasks[i].calls = 3
        /\ tasks[i].req # <<>>
        /\ tasks[i].box[1].error = "Gemini error"
        /\ \E j \in DOMAIN tasks : j # i /\ tasks[j].pc = "save" /\ tasks[j].calls = 2

\* C4: every item record, in the results list and in the history, has metadata or an
\* error string and never both.
C4_MetaXorError ==
    /\ \A k \in 1..Len(items) : MetaXorError(items[k])
    /\ \A id \in DOMAIN history : MetaXorError(history[id])

\* C5: the tasks of a batch are started once each, in list order; the batch completes
\* only when every task has settled; what the user does meanwhile neither stops nor
\* skips a task.
C5_StartedOnceInOrder ==
    /\ startLog = [k \in 1..pool.next |-> k]
    /\ Len(tasks) = Len(batch.files)
    /\ \A i \in DOMAIN tasks : (tasks[i].pc = "pending") = (i > pool.next)
    /\ pool.resolved =>
          /\ pool.next = Len(batch.files)
          /\ \A i \in DOMAIN tasks : tasks[i].pc = "settled"

\* C5 witness: a batch of more files than the pool runs at once has completed, and the
\* user added a file while it ran.
C5_Witness ==
    /\ pool.resolved
    /\ Len(batch.files) > 4
    /\ batch.no = 1
    /\ events = MaxEvents
    /\ Len(items) < Len(batch.files)

\* C6: the progress is round(100 * completed / total), never decreases while the batch
\* runs, and is 100 when the batch finishes.
C6_Progress ==
    [][ /\ BatchInFlight /\ batch'.no = batch.no => progress' >= progress
        /\ batch'.no > 0 =>
              progress' = Round100(Cardinality({i \in DOMAIN tasks' :
                                                  tasks'[i].pc = "settled"}),
                                   Len(batch'.files))
        /\ pool'.resolved => progress' = 100 ]_vars

C8_SavedBeforeShown ==
    /\ \A j \in Filled(pool.ret) :
          /\ pool.ret[j][1].id \in DOMAIN history
          /\ history[pool.ret[j][1].id].filename = pool.ret[j][1].filename
    /\ \A k \in 1..Len(items) : items[k].id \in DOMAIN history
    /\ batch.no > 0 =>
          progress <= Round100(Cardinality({i \in 1..Len(batch.files) :
                                   \E kind \in {0, 1} :
                                       nanoid(batch.no, i, kind) \in DOMAIN history}),
                               Len(batch.files))

\* C8 witness: the results show a successful and an errored item, both in the history.
C8_Witness ==
    /\ Len(items) = 2
    /\ items[1].error # "" /\ items[2].error = ""
    /\ history[items[1].id] = items[1] /\ history[items[2].id] = items[2]
    /\ progress = 100

\* C9: the instruction is hashed once per batch, and once a request of the batch has
\* registered the instruction in the route's cache, the later requests of the batch
\* carry the hash and not the instruction text.
C9_LaterRequestsCarryHash ==
    [][ /\ batch'.no > 0 => batch'.hashCalls = 1
        /\ \A i \in DOMAIN tasks :
              TaskSends(i) /\ batch.registered =>
                  /\ tasks'[i].req[1].instructionHash # <<>>
                  /\ tasks'[i].req[1].instruction = <<>> ]_vars

\* C10: no generation request is sent unless an API key is present and at least one
\* file is selected; runGeneration returning early leaves busy, progress, the results
\* and the selection as they are; the Generate button is disabled when no file is
\* selected.
C10_NoRequestWithoutKeyAndFile ==
    [][ /\ \A i \in DOMAIN tasks :
              TaskSends(i) => tasks'[i].req[1].apiKey.len > 0 /\ Len(files) > 0
        /\ \A s \in DOMAIN regens :
              RegenSends(s) => regens[s].apiKey.len > 0 /\ Len(files) > 0
        /\ (~alert /\ alert') => UNCHANGED <<busy, progress, items, files>>
        /\ Len(files) = 0 => GenerateDisabled ]_vars

\* C11: after failed attempt number k (from 1) withRetry waits 600 * k ms before the
\* next attempt, 600 ms and then 1200 ms, and it does not wait after the last failed
\* attempt; nor does it wait after an attempt that succeeded.
C11_BackoffTimesAttempt ==
    /\ \A i \in DOMAIN tasks :
          /\ tasks[i].pc = "fetch" =>
                tasks[i].waits = [k \in 1..tasks[i].calls |-> 600 * k]
          /\ tasks[i].pc # "fetch" /\ tasks[i].calls > 0 =>
                tasks[i].waits = [k \in 1..(tasks[i].calls - 1) |-> 600 * k]
          /\ tasks[i].waits \in {<<>>, <<600>>, <<600, 1200>>}
    /\ \A s \in DOMAIN regens :
          /\ regens[s].pc = "fetch" =>
                regens[s].waits = [k \in 1..regens[s].calls |-> 600 * k]
          /\ regens[s].pc = "save" =>
                regens[s].waits = [k \in 1..(regens[s].calls - 1) |-> 600 * k]

\* C11 witness: a task gave up after its third failed attempt, having waited 600 ms and
\* 1200 ms, beside a task that succeeded at its second attempt after one wait of 600 ms.
C11_Witness ==
    \E i, j \in DOMAIN tasks :
        /\ tasks[i].pc = "saveErr" /\ tasks[i].calls = 3
        /\ tasks[i].waits = <<600, 1200>>
        /\ tasks[j].pc = "save" /\ tasks[j].calls = 2
        /\ tasks[j].waits = <<600>>

----------------------------------------------------------------------------
(* C11..C20 *)

\* C12: cleanKeywords drops every keyword that differs from an earlier one at most in
\* case, keeps the first occurrence as it was written, and keeps the kept keywords in
\* their order: its keywords are the first ones of the distinct keywords of the input,
\* and all of them when the target count allows.
C12_DedupeIgnoringCase ==
    lib.fn = "cleanKeywords" =>
        LET D   == DistinctKeywords(KeywordsOf(lib.input))
            out == KeywordsOf(lib.output[1])
        IN  /\ Len(out) <= Len(D)
            /\ out = SubSeq(D, 1, Len(out))
            /\ lib.targetCount >= Len(D) => out = D

\* C12 witness: of "A,a,b" the keywords "A" and "b" are kept.
C12_Witness ==
    /\ lib.fn = "cleanKeywords"
    /\ lib.input = <<"A", ",", "a", ",", "b">>
    /\ lib.targetCount = 3
    /\ lib.output = << <<"A", ",", " ", "b">> >>

\* C13: for every text and every target count n >= 0, cleanKeywords returns the first
\* n distinct keywords of the text, and all the distinct keywords when they are fewer
\* than n.
C13_FirstNDistinct ==
    lib.fn = "cleanKeywords" =>
        LET D == DistinctKeywords(KeywordsOf(lib.input))
        IN  KeywordsOf(lib.output[1]) = SubSeq(D, 1, Min(lib.targetCount, Len(D)))

\* C14: parseKeywords returns the pieces between the commas, trimmed, without the
\* empty ones, in their order: no keyword is empty, starts or ends with a blank or
\* contains a comma, and a text of blanks only gives the empty list.
C14_ParseKeywords ==
    lib.fn = "parseKeywords" =>
        LET out == lib.output[1]
        IN  /\ out = KeywordsOf(lib.input)
            /\ \A k \in 1..Len(out) :
                  /\ out[k] # <<>>
                  /\ out[k][1] # " " /\ out[k][Len(out[k])] # " "
                  /\ \A m \in 1..Len(out[k]) : out[k][m] # ","
            /\ (\A m \in 1..Len(lib.input) : lib.input[m] = " ") => out = <<>>

\* C14 witness: " a,,b" gives the keywords "a" and "b"; the empty piece is dropped.
C14_Witness ==
    /\ lib.fn = "parseKeywords"
    /\ lib.input = <<" ", "a", ",", ",", "b">>
    /\ lib.output = << << <<"a">>, <<"b">> >> >>

\* the quotes of a text between two positions
QuotesIn(text, a, b) == {m \in a..b : text[m] = "\""}

\* the closing quote of the field whose opening quote is at i: the first quote
\* that no quote follows and that has an even number of quotes between the
\* opening quote and itself; 0 when there is none
ClosingQuote(text, i) ==
    LET C == {j \in (i + 1)..Len(text) :
                /\ text[j] = "\""
                /\ (j = Len(text) \/ text[j + 1] # "\"")
                /\ Cardinality(QuotesIn(text, i + 1, j)) % 2 = 1}
    IN  IF C = {} THEN 0 ELSE CHOOSE j \in C : \A m \in C : j <= m

\* the value between the opening quote at i and the closing quote at j: of each
\* two quotes the second one is kept
Unquoted(text, i, j) ==
    LET K == {m \in (i + 1)..(j - 1) :
                text[m] = "\"" => Cardinality(QuotesIn(text, i + 1, m)) % 2 = 0}
    IN  [n \in 1..Cardinality(K) |->
            text[CHOOSE m \in K : Cardinality({x \in K : x <= m}) = n]]

\* a CSV text read back from position i, fields in quotes only: a field opens
\* with a quote and closes with a quote, and after it come a comma, a carriage
\* return and line feed, or the end
RECURSIVE ReadFrom(_, _, _, _)
ReadFrom(text, i, row, rows) ==
    LET j    == IF i <= Len(text) /\ text[i] = "\"" THEN ClosingQuote(text, i) ELSE 0
        here == Append(row, Unquoted(text, i, j))
    IN  IF j = 0 THEN [ok |-> FALSE, rows |-> <<>>]
        ELSE IF j = Len(text) THEN [ok |-> TRUE, rows |-> Append(rows, here)]
        ELSE IF text[j + 1] = "," THEN ReadFrom(text, j + 2, here, rows)
        ELSE IF text[j + 1] = "\r" /\ j + 2 <= Len(text) /\ text[j + 2] = "\n"
        THEN ReadFrom(text, j + 3, <<>>, Append(rows, here))
        ELSE [ok |-> FALSE, rows |-> <<>>]

ReadCSV(text) ==
    IF text = <<>> THEN [ok |-> TRUE, rows |-> <<>>]
    ELSE ReadFrom(text, 1, <<>>, <<>>)

\* the step downloads a file of the agency
Exports(agency) == download' # download /\ download'[1].agency = agency

\* the column name Releases
HReleases == <<"R", "e", "l", "e", "a", "s", "e", "s">>

\* a field of the item's metadata, blank when the item has none
Stored(it, f) ==
    IF it.meta # <<>> /\ f \in DOMAIN it.meta[1] THEN it.meta[1][f] ELSE <<>>

\* C15: the Adobe Stock CSV has exactly the columns Filename, Title, Keywords,
\* Category, Releases, in that order, and the row of each item carries the category
\* and the releases stored in the item's metadata, blank when absent.
C15_AdobeColumns ==
    [][Exports("adobe") =>
          LET t == ReadCSV(download'[1].csv)
          IN  /\ t.ok
              /\ Len(t.rows) = Len(items) + 1
              /\ t.rows[1] = <<HFilename, HTitle, HKeywords, HCategory, HReleases>>
              /\ \A k \in 1..Len(items) :
                    t.rows[k + 1] = <<items[k].filename, Stored(items[k], "title"),
                                      Stored(items[k], "keywords"),
                                      Stored(items[k], "category"),
                                      Stored(items[k], "releases")>>]_vars

\* C16: the Shutterstock CSV has exactly the columns Filename, Description,
\* Keywords, in that order, and no Category column.
C16_ShutterstockColumns ==
    [][Exports("shutterstock") =>
          LET t == ReadCSV(download'[1].csv)
          IN  /\ t.ok
              /\ Len(t.rows) = Len(items) + 1
              /\ t.rows[1] = <<HFilename, HDescription, HKeywords>>
              /\ \A c \in 1..Len(t.rows[1]) : t.rows[1][c] # HCategory]_vars

\* C17: the Dreamstime CSV has exactly the columns filename, title, description,
\* keywords, in that order.
C17_DreamstimeColumns ==
    [][Exports("dreamstime") =>
          LET t == ReadCSV(download'[1].csv)
          IN  /\ t.ok
              /\ Len(t.rows) = Len(items) + 1
              /\ t.rows[1] = <<hfilename, htitle, hdescription, hkeywords>>]_vars

RegenEnds(s) == regens[s].pc # "idle" /\ regens'[s].pc = "idle"

\* the history record of an id, if any
Recorded(h, id) == IF id \in DOMAIN h THEN <<h[id]>> ELSE <<>>

\* C19: regenerating an item changes only that item. On success the item's metadata
\* is replaced by the newly generated metadata with cleaned keywords, its id, file
\* name and thumbnail are as before, and when the handler ends the updated record
\* is in the history under the same id. On failure (the item shows an error) the item's metadata is kept, which
\* after the handler has written new metadata to the item means that the item has
\* the metadata of the click again, and the item's history record is as before.
\* Every other item is unchanged by every step of the regeneration.
C19_RegenerateOnlyThatItem ==
    [][\A s \in 1..MaxRegens :
          regens'[s] # regens[s] /\ regens[s].pc # "idle" =>
              LET g  == regens[s]
                  id == g.id[1]
              IN  /\ Len(items') = Len(items)
                  /\ \A k \in 1..Len(items) :
                        /\ items[k].id # id => items'[k] = items[k]
                        /\ items'[k].id = items[k].id
                        /\ items'[k].filename = items[k].filename
                        /\ items'[k].thumbDataUrl = items[k].thumbDataUrl
                        /\ (regens'[s].pc = "save" /\ items[k].id = id) =>
                              /\ items'[k].meta = regens'[s].updated[1].meta
                              /\ items'[k].meta[1].keywords =
                                    cleanKeywords(items'[k].meta[1].keywords,
                                                  g.keywordsCount)
                        /\ (RegenEnds(s) /\ items[k].id = id /\ items'[k].error = "") =>
                              /\ g.updated # <<>>
                              /\ items'[k] = items[k]
                              /\ Recorded(history', id) = g.updated
                              /\ g.updated[1].id = id
                        /\ (RegenEnds(s) /\ items[k].id = id /\ items'[k].error # "") =>
                              /\ items'[k].meta = items[k].meta
                              /\ g.updated # <<>> => items'[k].meta = g.it[1].meta
                              /\ Recorded(history', id) = Recorded(history, id)]_vars


\* a list without its element at position p
Without(list, p) == SubSeq(list, 1, p - 1) \o SubSeq(list, p + 1, Len(list))

\* the step is a drop on a chip: the drag in progress ends
Drops == dataTransfer # <<>> /\ dataTransfer' = <<>>

\* C20: dragging a chip from index from onto index to gives a permutation of the
\* item's keywords with the moved keyword at index to and the other keywords in
\* their order; when from or to is not a valid index of the list (negative, at or
\* beyond its length, or not a number) the keywords are left unchanged. The index
\* from is the number that the drop reads from the drag, so a drop changes the
\* keywords of an item only if from is a valid index, and then by such a move.
C20_ChipDropMoves ==
    [][Drops =>
          LET from == parseInt(dataTransfer[1])
          IN  \A k \in 1..Len(items) :
                 LET old == KeywordsOf(Stored(items[k], "keywords"))
                     new == KeywordsOf(Stored(items'[k], "keywords"))
                 IN  Stored(items'[k], "keywords") # Stored(items[k], "keywords") =>
                        /\ from # NaN
                        /\ from[1] \in 0..(Len(old) - 1)
                        /\ Len(new) = Len(old)
                        /\ \E to \in 0..(Len(old) - 1) :
                              /\ new[to + 1] = old[from[1] + 1]
                              /\ Without(new, to + 1) = Without(old, from[1] + 1)]_vars

(* C21..C30 *)

\* the positions <<page, k>> at which the record of an id appears on the pages
\* loaded so far
PlacesOf(id) ==
    {pk \in {<<p, k>> : p \in 1..Len(lib.output), k \in 1..MaxRecords} :
        /\ pk[2] <= Len(lib.output[pk[1]].items)
        /\ lib.output[pk[1]].items[pk[2]].id = id}

\* C21: loadHistory(page, pageSize) returns at most pageSize items and reports as
\* total the number of stored history records; once pages 0 .. ceil(total/pageSize)-1
\* of an unchanged store have been loaded, every stored record is on exactly one of
\* them, as it is stored.
C21_PagesPartitionTheStore ==
    lib.fn = "loadHistory" =>
        LET size  == lib.input[1]
            total == Cardinality(DOMAIN history)
        IN  /\ \A p \in 1..Len(lib.output) :
                  /\ Len(lib.output[p].items) <= size
                  /\ lib.output[p].total = total
            /\ Len(lib.output) >= Ceil(total, size) =>
                  \A id \in DOMAIN history :
                      /\ Cardinality(PlacesOf(id)) = 1
                      /\ \A pk \in PlacesOf(id) :
                            /\ pk[1] <= Ceil(total, size)
                            /\ lib.output[pk[1]].items[pk[2]] = history[id]

\* C21 witness: a store of four records has been walked with page size 3: the
\* first page has three records, the second has one.
C21_Witness ==
    /\ lib.fn = "loadHistory"
    /\ lib.input = <<3>>
    /\ Cardinality(DOMAIN history) = 4
    /\ Len(lib.output) = 2
    /\ Len(lib.output[1].items) = 3
    /\ Len(lib.output[2].items) = 1

\* the body is JSON and lacks apiKey, model or imageDataUrl (the value null has
\* no field at all), or its key, its model name or its image URL is not of the
\* form that the Gemini route accepts
Lacking(body) ==
    /\ body.kind # "malformed"
    /\ \/ body.kind = "null"
       \/ body.fields.apiKey.len = 0
       \/ ~(body.fields.apiKey.prefix = "AIza" /\ body.fields.apiKey.len >= 30)
       \/ body.fields.model \notin ALLOWED_MODELS
       \/ body.fields.imageDataUrl = <<>>
       \/ body.fields.imageDataUrl = <<NotADataUrl>>

\* C22: the route answers 400 to a request that lacks apiKey, model or imageDataUrl,
\* or whose API key format, model name or image data-URL format is invalid; for
\* such a request the provider is not called and the instruction cache is left
\* unchanged.
C22_InvalidRequestIs400 ==
    [][lib'.fn = "POST" =>
          (Lacking(lib'.input[1]) =>
              /\ lib'.output[1].status = 400
              /\ ~lib'.output[1].called
              /\ cache' = cache)]_vars

\* C26: the system prompt that the route forwards to the provider for a request
\* that carries an instruction and the hash of that instruction is the request's
\* own instruction, whatever requests the server instance has handled before.
C26_OwnInstructionForwarded ==
    [][lib'.fn = "POST" =>
          LET body == lib'.input[1]
          IN  (/\ body.kind = "object"
               /\ body.fields.instruction # <<>>
               /\ body.fields.instructionHash # <<>>
               /\ body.fields.instructionHash[1] = sha256(body.fields.instruction[1])
               /\ lib'.output[1].called)
              => lib'.output[1].sys = body.fields.instruction]_vars


\* a regenerate call has set busy and has not reached its finally
RegenInFlight == \E s \in 1..MaxRegens : regens[s].pc # "idle"

\* C23: busy is true at every moment while a batch or a regeneration is in flight,
\* and so the Generate button is disabled for as long as a batch runs: no second
\* batch can be started before the running one has finished, however batch and
\* regenerate calls interleave.
C23_BusyWhileInFlight ==
    /\ (BatchInFlight \/ RegenInFlight) => busy
    /\ BatchInFlight => GenerateDisabled

\* C24: what the results list shows for a completed item while the batch is still
\* running (the item as the user has edited it, or as a regeneration has replaced
\* it) is still in the list when a later task of the batch completes.
C24_EditsSurviveLaterTasks ==
    [][(BatchInFlight /\ pool'.ret # pool.ret) =>
          \A k \in 1..Len(items) : \E j \in 1..Len(items') : items'[j] = items[k]]_vars

\* C25: the promise that pLimit returns is eventually resolved, for every task list,
\* the empty one included, when every started task eventually settles.
C25_PLimitResolves == (batch.no > 0) ~> pool.resolved

\* C27: a file leaves the selection only as a file of the batch that has processed
\* it; a file added while a batch runs stays selected until a batch has taken it.
C27_NoFileDroppedUnprocessed ==
    [][\A k \in 1..Len(files) :
          (\A j \in 1..Len(files') : files'[j] # files[k])
              => \E b \in 1..Len(batch.files) : batch.files[b] = files[k]]_vars

\* the key, the instruction, its hash and the files that a batch works with
Captured(b) ==
    [files |-> b.files, apiKey |-> b.apiKey, instruction |-> b.instr,
     instructionHash |-> b.instructionHash]

NoDuplicates(arr) ==
    \A i, j \in 1..Len(arr) : i # j => toLowerCase(arr[i]) # toLowerCase(arr[j])

\* C29: when the keywords of an item, as parseKeywords reads them, hold no two
\* that are the same but for their case, they hold none after an add-keyword, a
\* remove-chip or a reorder either; and an add-keyword with a blank text, or with a
\* keyword that the list holds in any casing, leaves the list as it was.
C29_ChipsStayDistinct ==
    [][\A k \in 1..Len(items) :
          /\ NoDuplicates(Chips(k)) => NoDuplicates(Chips(k)')
          /\ (/\ lib'.output # lib.output
              /\ lib'.fn = "addKeyword"
              /\ EditorShown(items[k])
              /\ \/ trim(lib'.input[1]) = <<>>
                 \/ toLowerCase(trim(lib'.input[1])) \in LowerSet(Chips(k)))
             => (Chips(k))' = Chips(k)]_vars

\* the ids of the items of the current page that have no error
SelectableIds ==
    {hist.items[k].id : k \in {j \in 1..Len(hist.items) : hist.items[j].error = ""}}

\* C30: on the History tab allSelected is true exactly when at least one item is
\* selected and every item of the current page that has no error is selected,
\* after any sequence of toggles and select-all clicks; and a click on the control
\* in its 'Select all' state (the only step that changes the selection of more than
\* one item of a page and leaves an item selected) selects exactly the items of the
\* page without error.
C30_SelectAllState ==
    [][/\ allSelected' <=> (selectedIds' # {} /\ SelectableIds' \subseteq selectedIds')
       /\ (/\ ~allSelected
           /\ hist' = hist
           /\ selectedIds' # {}
           /\ Cardinality((selectedIds' \ selectedIds) \cup (selectedIds \ selectedIds')) > 1)
          => selectedIds' = SelectableIds]_vars

====
